---- MODULE Spec2Model ----
(***************************************************************************)
(* A model of the agent runtime of src/agents/core:                        *)
(*   - BaseAgentExecutor / StreamingAgentExecutor (agent_executor.py):     *)
(*     one execute() flow on one task, interleaved at its await points     *)
(*     with cancel() calls on the same task and event queue;               *)
(*   - AgentMemory / RedisBackedMemory (memory.py): the bounded message    *)
(*     history, its reads, the metadata and the external store;            *)
(*   - ToolRegistry (tools.py): the definitions and their invocation.      *)
(* Optional values (Python's None) are sequences of length 0 or 1.         *)
(***************************************************************************)
EXTENDS Integers, Sequences, FiniteSets, TLC

VARIABLES
    kind,          \* which executor class runs execute: "base" or "streaming"
    context,       \* RequestContext: [task_id, message]
    event_queue,   \* the events put on the EventQueue, in order
    pc,            \* position of the execute coroutine
    processCalls,  \* the texts process_message was invoked with, in order
    outcome,       \* how process_message ended (optional): [how, value]
    cancels,       \* number of cancel() calls made so far
    pushes,        \* number of intermediate events the streaming capability pushed
    max_messages,  \* AgentMemory.max_messages
    messages,      \* AgentMemory.messages
    metadata,      \* AgentMemory.metadata
    appended,      \* history: every message added for the session since construction or the last clear
    adds,          \* number of add_message calls made so far
    backed,        \* whether the memory is a RedisBackedMemory
    store,         \* the keys of the external store under the memory's key prefix
    lastRead,        \* what the last read of the memory returned (optional)
    memRaised,     \* the fault the last memory call raised to its caller (optional)
    pending,       \* per task sharing the memory, the messages it has still to add
    written,       \* history: per key, the value of the most recent set_metadata (optional)
    tools,         \* ToolRegistry.tools: the definitions, in insertion order of their names
    latest,        \* history: per name, the definition last registered and not unregistered since (optional)
    call           \* the last call made on the registry and what it gave (optional)

execVars == <<kind, context, event_queue, pc, processCalls, outcome, cancels, pushes>>
memVars == <<max_messages, messages, metadata, appended, adds, backed, store, lastRead, memRaised,
             pending, written>>
toolVars == <<tools, latest, call>>
vars == <<kind, context, event_queue, pc, processCalls, outcome, cancels, pushes,
          max_messages, messages, metadata, appended, adds, backed, store, lastRead, memRaised,
          pending, written, tools, latest, call>>

(***************************************************************************)
(* Bounds of the model.                                                    *)
(***************************************************************************)
MaxCancels == 2
MaxPushes == 1
MaxAdds == 4
MaxCapacity == 3
MaxLastN == 3

Min(a, b) == IF a < b THEN a ELSE b
Max(a, b) == IF a > b THEN a ELSE b

None == <<>>
Some(x) == <<x>>

(***************************************************************************)
(* a2a.types as the executor uses them.                                    *)
(***************************************************************************)
TextPart(text) == [kind |-> "text", text |-> text]
FilePart == [kind |-> "file", text |-> ""]
Message(role, parts) == [role |-> role, parts |-> parts]
TaskUpdate(task_id, update_type, message, result) ==
    [task_id |-> task_id, update_type |-> update_type, message |-> message, result |-> result]

TerminalTypes == {"COMPLETED", "FAILED", "CANCELED"}

TaskIds == {"t1", "t2"}
Texts == {"hi", ""}
Responses == {"hello back", ""}
Faults == {"boom", ""}
PushTexts == {"working"}

\* The request messages execute is called with: absent, without parts,
\* without a text part, and with text parts at several positions.
RequestMessages ==
    { None,
      Some(Message("user", <<>>)),
      Some(Message("user", <<FilePart>>)),
      Some(Message("user", <<FilePart, FilePart>>)) }
    \cup { Some(Message("user", <<TextPart(t)>>)) : t \in Texts }
    \cup { Some(Message("user", <<FilePart, TextPart(t)>>)) : t \in Texts }
    \cup { Some(Message("user", <<TextPart(t), TextPart("yo")>>)) : t \in Texts }

(***************************************************************************)
(* BaseAgentExecutor helpers.                                              *)
(***************************************************************************)
RECURSIVE FirstText(_)
FirstText(parts) ==
    IF parts = <<>> THEN None
    ELSE IF Head(parts).kind = "text" THEN Some(Head(parts).text)
    ELSE FirstText(Tail(parts))

extract_always_placeholder(ctx) == Some("hi")

_extract_user_message(ctx) ==
    IF ctx.message = None \/ ctx.message[1].parts = <<>> THEN None
    ELSE FirstText(ctx.message[1].parts)

\* Python truth value of an Optional[str]: None and "" are false.
Truthy(opt) == opt # None /\ opt[1] # ""

send_status_update_dropped(q, task_id, status) == q

_send_status_update(q, task_id, status) ==
    Append(q, TaskUpdate(task_id, "IN_PROGRESS", status, None))

send_response_as_user(q, task_id, response_text) ==
    Append(q, TaskUpdate(task_id, "COMPLETED", "Task completed successfully",
                         Some(Message("user", <<TextPart(response_text)>>))))

_send_response(q, task_id, response_text) ==
    Append(q, TaskUpdate(task_id, "COMPLETED", "Task completed successfully",
                         Some(Message("assistant", <<TextPart(response_text)>>))))

_send_error(q, task_id, error_message) ==
    Append(q, TaskUpdate(task_id, "FAILED", error_message, None))

(***************************************************************************)
(* execute, one action per stretch between two suspension points.          *)
(***************************************************************************)
\* BaseAgentExecutor.execute up to the first await: the initial status update.
ExecuteStart ==
    /\ kind = "base"
    /\ pc = "created"
    /\ event_queue' = _send_status_update(event_queue, context.task_id, "Processing request...")
    /\ pc' = "status_sent"
    /\ UNCHANGED <<kind, context, processCalls, outcome, cancels, pushes>>

ExecuteExtract_silent ==
    /\ \/ kind = "base" /\ pc = "status_sent"
       \/ kind = "streaming" /\ pc = "created"
    /\ LET user_message == _extract_user_message(context) IN
       IF ~Truthy(user_message)
       THEN /\ pc' = "returned"
            /\ UNCHANGED <<processCalls, event_queue>>
       ELSE /\ processCalls' = Append(processCalls, user_message[1])
            /\ pc' = "processing"
            /\ UNCHANGED event_queue
    /\ UNCHANGED <<kind, context, outcome, cancels, pushes>>

\* Extraction of the user message; either the validation failure and return,
\* or the call of process_message (process_message_streaming when streaming).
ExecuteExtract ==
    /\ \/ kind = "base" /\ pc = "status_sent"
       \/ kind = "streaming" /\ pc = "created"
    /\ LET user_message == _extract_user_message(context) IN
       IF ~Truthy(user_message)
       THEN /\ event_queue' = _send_error(event_queue, context.task_id,
                                         "No valid message content found")
            /\ pc' = "returned"
            /\ UNCHANGED processCalls
       ELSE /\ processCalls' = Append(processCalls, user_message[1])
            /\ pc' = "processing"
            /\ UNCHANGED event_queue
    /\ UNCHANGED <<kind, context, outcome, cancels, pushes>>

\* An overriding process_message_streaming pushes an intermediate event.
StreamPush ==
    /\ kind = "streaming"
    /\ pc = "processing"
    /\ pushes < MaxPushes
    /\ \E t \in PushTexts :
         event_queue' = _send_status_update(event_queue, context.task_id, t)
    /\ pushes' = pushes + 1
    /\ UNCHANGED <<kind, context, pc, processCalls, outcome, cancels>>

\* process_message returns r: the response is sent and execute returns.
ExecuteComplete ==
    /\ pc = "processing"
    /\ \E r \in Responses :
         /\ outcome' = Some([how |-> "return", value |-> r])
         /\ event_queue' = _send_response(event_queue, context.task_id, r)
    /\ pc' = "returned"
    /\ UNCHANGED <<kind, context, processCalls, cancels, pushes>>

ExecuteRaise_propagating ==
    /\ pc = "processing"
    /\ \E e \in Faults : outcome' = Some([how |-> "raise", value |-> e])
    /\ pc' = "escaped"
    /\ UNCHANGED <<kind, context, event_queue, processCalls, cancels, pushes>>

\* process_message raises an Exception e: the handler sends the error
\* ("Execution error: " + str(e) in the base class, str(e) in the streaming
\* one) and execute returns.
ExecuteRaise ==
    /\ pc = "processing"
    /\ \E e \in Faults :
         /\ outcome' = Some([how |-> "raise", value |-> e])
         /\ event_queue' = _send_error(event_queue, context.task_id,
                                       IF kind = "base" THEN "Execution error: " \o e ELSE e)
    /\ pc' = "returned"
    /\ UNCHANGED <<kind, context, processCalls, cancels, pushes>>

\* The awaiting flow is cancelled: asyncio.CancelledError is a BaseException,
\* which "except Exception" does not catch; it leaves execute.
ExecuteCancelled ==
    /\ pc = "processing"
    /\ outcome' = Some([how |-> "cancelled", value |-> ""])
    /\ pc' = "escaped"
    /\ UNCHANGED <<kind, context, event_queue, processCalls, cancels, pushes>>

\* BaseAgentExecutor.cancel: puts CANCELED, whatever the state of the task.
\* It is called for a task whose execute has begun (pc # "created"); the code
\* itself checks nothing.
cancel ==
    /\ cancels < MaxCancels
    /\ pc # "created"
    /\ event_queue' = Append(event_queue,
                             TaskUpdate(context.task_id, "CANCELED", "Task canceled by user", None))
    /\ cancels' = cancels + 1
    /\ UNCHANGED <<kind, context, pc, processCalls, outcome, pushes>>

ExecStep ==
    \/ ExecuteStart
    \/ ExecuteExtract
    \/ StreamPush
    \/ ExecuteComplete
    \/ ExecuteRaise
    \/ ExecuteCancelled

\* An empty dict.
EmptyDict == [k \in {} |-> ""]

Tasks == {"t1", "t2", "t3"}
\* No task shares the memory: its calls are made by one caller.
NoTasks == [t \in Tasks |-> <<>>]

MetaKeys == {"k1", "k2"}
MetaValues == {"v1", "v2"}
\* No set_metadata call has been made.
NeverSet == [k \in MetaKeys |-> None]

\* The memory, untouched, while the executor is what is explored.
MemIdle ==
    /\ max_messages = 0
    /\ messages = <<>>
    /\ metadata = EmptyDict
    /\ appended = <<>>
    /\ adds = 0
    /\ backed = FALSE
    /\ store = {}
    /\ lastRead = None
    /\ memRaised = None
    /\ pending = NoTasks
    /\ written = NeverSet

ToolNames == {"search", "calc"}

\* The registry, untouched, while another component is what is explored.
ToolIdle ==
    /\ tools = <<>>
    /\ latest = [n \in ToolNames |-> None]
    /\ call = None

ExecInit ==
    /\ kind \in {"base", "streaming"}
    /\ context \in [task_id : TaskIds, message : RequestMessages]
    /\ event_queue = <<>>
    /\ pc = "created"
    /\ processCalls = <<>>
    /\ outcome = None
    /\ cancels = 0
    /\ pushes = 0
    /\ MemIdle
    /\ ToolIdle

ExecNext ==
    \/ ExecuteStart /\ UNCHANGED <<memVars, toolVars>>
    \/ ExecuteExtract /\ UNCHANGED <<memVars, toolVars>>
    \/ StreamPush /\ UNCHANGED <<memVars, toolVars>>
    \/ ExecuteComplete /\ UNCHANGED <<memVars, toolVars>>
    \/ ExecuteRaise /\ UNCHANGED <<memVars, toolVars>>
    \/ ExecuteCancelled /\ UNCHANGED <<memVars, toolVars>>
    \/ cancel /\ UNCHANGED <<memVars, toolVars>>

ExecSpec == ExecInit /\ [][ExecNext]_vars

\* The event loop resumes a runnable coroutine: every step of execute that is
\* enabled is eventually taken.  Calls of cancel are the caller's choice.
FairExecSpec == ExecSpec /\ WF_vars(ExecStep /\ UNCHANGED <<memVars, toolVars>>)

(***************************************************************************)
(* AgentMemory.                                                            *)
(***************************************************************************)
UserHello == Message("user", <<TextPart("hello")>>)
AssistantHiThere == Message("assistant", <<TextPart("hi"), FilePart, TextPart("there")>>)
UserFile == Message("user", <<FilePart>>)
\* The messages add_message is called with: one text part, several parts, no
\* text part.
MemMessages == {UserHello, AssistantHiThere, UserFile}

\* Python's s[start:], for any integer start.
PySliceFrom(s, start) ==
    LET lo == IF start < 0 THEN Max(Len(s) + start, 0) ELSE Min(start, Len(s))
    IN  SubSeq(s, lo + 1, Len(s))

add_message_drop_newest(msgs, cap, m) ==
    LET a == Append(msgs, m)
    IN  IF Len(a) > cap THEN SubSeq(a, 1, cap) ELSE a

\* AgentMemory.add_message: append, then messages[-max_messages:] when the
\* length exceeds max_messages.
add_message(msgs, cap, m) ==
    LET a == Append(msgs, m)
    IN  IF Len(a) > cap THEN PySliceFrom(a, -cap) ELSE a

set_metadata_keep_first(md, key, value) ==
    [k \in (DOMAIN md) \cup {key} |-> IF k \in DOMAIN md THEN md[k] ELSE value]

\* AgentMemory.set_metadata: self.metadata[key] = value.
set_metadata(md, key, value) ==
    [k \in (DOMAIN md) \cup {key} |-> IF k = key THEN value ELSE md[k]]

\* AgentMemory.get_metadata: dict.get(key, default).
get_metadata(md, key, default) ==
    IF key \in DOMAIN md THEN md[key] ELSE default

Roles == {"user", "assistant"}
\* The arguments of get_messages: None or a value.
LastNs == {None} \cup {Some(n) : n \in 0..MaxLastN}
RoleFilters == {None} \cup {Some(r) : r \in Roles}

get_messages_truncate_first(msgs, last_n, role) ==
    LET HasRole(m) == m.role = role[1]
        cut == IF last_n # None /\ last_n[1] # 0
               THEN PySliceFrom(msgs, -last_n[1]) ELSE msgs
    IN  IF role # None THEN SelectSeq(cut, HasRole) ELSE cut

\* AgentMemory.get_messages: "if role:" filters, then "if last_n:" takes
\* messages[-last_n:]; None and 0 are false.
get_messages(msgs, last_n, role) ==
    LET HasRole(m) == m.role = role[1]
        filtered == IF role # None THEN SelectSeq(msgs, HasRole) ELSE msgs
    IN  IF last_n # None /\ last_n[1] # 0
        THEN PySliceFrom(filtered, -last_n[1]) ELSE filtered

\* The list get_messages returns is self.messages itself when neither branch
\* is taken; a filter or a slice builds a new list.
ReturnsStoredList(last_n, role) ==
    role = None /\ (last_n = None \/ last_n[1] = 0)

RECURSIVE JoinWith(_, _)
\* Python's sep.join(strs).
JoinWith(strs, sep) ==
    IF strs = <<>> THEN ""
    ELSE IF Len(strs) = 1 THEN strs[1]
    ELSE strs[1] \o sep \o JoinWith(Tail(strs), sep)

IsTextPart(part) == part.kind = "text"
PartText(parts) == [i \in 1..Len(parts) |-> parts[i].text]
\* The texts of the parts that have a text attribute.
TextParts(msg) == PartText(SelectSeq(msg.parts, IsTextPart))
HasText(msg) == TextParts(msg) # <<>>
Entry(msg) == msg.role \o ": " \o JoinWith(TextParts(msg), " ")
EntriesOf(msgs) == [i \in 1..Len(msgs) |-> Entry(msgs[i])]

get_conversation_history_unordered(msgs) ==
    LET kept == SelectSeq(msgs, HasText)
    IN  JoinWith([i \in 1..Len(kept) |-> Entry(kept[Len(kept) + 1 - i])], "\n\n")

\* AgentMemory.get_conversation_history.
get_conversation_history(msgs) ==
    JoinWith(EntriesOf(SelectSeq(msgs, HasText)), "\n\n")

\* What a list returned earlier by get_messages holds after add_message(m):
\* the append is made in place on self.messages, the trim rebinds
\* self.messages to a new list.
ResultAfterAdd(res, cap, m) ==
    IF res # None /\ res[1].alias
    THEN Some([res[1] EXCEPT !.value = Append(res[1].value, m),
                             !.alias = (Len(res[1].value) + 1 <= cap)])
    ELSE res

\* What it holds after clear(): self.messages.clear() empties the list in place.
ResultAfterClear(res) ==
    IF res # None /\ res[1].alias
    THEN Some([res[1] EXCEPT !.value = <<>>])
    ELSE res

\* The keys the external store may hold under "agent_memory:{session_id}:".
RedisKeys == {"agent_memory:s1:messages"}

\* RedisBackedMemory._save_to_redis: a placeholder, it touches no store.
_save_to_redis(st) == st

\* add_message, of AgentMemory and (followed by _save_to_redis) of
\* RedisBackedMemory.
AddMessage ==
    /\ adds < MaxAdds
    /\ \E m \in MemMessages :
         /\ messages' = add_message(messages, max_messages, m)
         /\ appended' = Append(appended, m)
         /\ lastRead' = ResultAfterAdd(lastRead, max_messages, m)
    /\ adds' = adds + 1
    /\ store' = (IF backed THEN _save_to_redis(store) ELSE store)
    /\ memRaised' = None
    /\ UNCHANGED <<max_messages, metadata, backed, pending, written>>

Clear_wiping_metadata ==
    /\ ~backed
    /\ messages' = <<>>
    /\ appended' = <<>>
    /\ lastRead' = ResultAfterClear(lastRead)
    /\ memRaised' = None
    /\ metadata' = EmptyDict
    /\ UNCHANGED <<max_messages, adds, backed, store, pending, written>>

\* AgentMemory.clear.
Clear ==
    /\ ~backed
    /\ messages' = <<>>
    /\ appended' = <<>>
    /\ lastRead' = ResultAfterClear(lastRead)
    /\ memRaised' = None
    /\ UNCHANGED <<max_messages, metadata, adds, backed, store, pending, written>>

RedisClear_propagating ==
    /\ backed
    /\ \E fault \in {"none", "keys", "delete"} :
         /\ fault = "delete" => store # {}
         /\ store' = (IF fault = "none" THEN {} ELSE store)
         /\ memRaised' = (IF fault = "none" THEN None ELSE Some("redis " \o fault))
         /\ messages' = (IF fault = "none" THEN <<>> ELSE messages)
         /\ appended' = (IF fault = "none" THEN <<>> ELSE appended)
         /\ lastRead' = (IF fault = "none" THEN ResultAfterClear(lastRead) ELSE lastRead)
    /\ UNCHANGED <<max_messages, metadata, adds, backed, pending, written>>

\* RedisBackedMemory.clear: the in-memory clear, then the keys of the session
\* are looked up and deleted; redis_client.keys or redis_client.delete may
\* fail, and the handler logs the fault.
RedisClear ==
    /\ backed
    /\ messages' = <<>>
    /\ appended' = <<>>
    /\ lastRead' = ResultAfterClear(lastRead)
    /\ \E fault \in {"none", "keys", "delete"} :
         /\ fault = "delete" => store # {}
         /\ store' = (IF fault = "none" THEN {} ELSE store)
    /\ memRaised' = None
    /\ UNCHANGED <<max_messages, metadata, adds, backed, pending, written>>

SetMetadata ==
    /\ \E key \in MetaKeys, value \in MetaValues :
         /\ metadata' = set_metadata(metadata, key, value)
         /\ written' = [written EXCEPT ![key] = Some(value)]
    /\ memRaised' = None
    /\ UNCHANGED <<max_messages, messages, appended, adds, backed, store, lastRead, pending>>

\* A call of get_messages; the result is kept with the history it was taken
\* from ("at").
GetMessages ==
    /\ \E last_n \in LastNs, role \in RoleFilters :
         lastRead' = Some([op |-> "get_messages", last_n |-> last_n, role |-> role,
                         value |-> get_messages(messages, last_n, role),
                         text |-> "",
                         at |-> messages,
                         alias |-> ReturnsStoredList(last_n, role)])
    /\ memRaised' = None
    /\ UNCHANGED <<max_messages, messages, metadata, appended, adds, backed, store, pending, written>>

\* A call of get_conversation_history.
GetConversationHistory ==
    /\ lastRead' = Some([op |-> "get_conversation_history", last_n |-> None, role |-> None,
                       value |-> <<>>,
                       text |-> get_conversation_history(messages),
                       at |-> messages,
                       alias |-> FALSE])
    /\ memRaised' = None
    /\ UNCHANGED <<max_messages, messages, metadata, appended, adds, backed, store, pending, written>>

\* The executor, not running, while the memory is what is explored.
ExecIdle ==
    /\ kind = "base"
    /\ context = [task_id |-> "t1", message |-> None]
    /\ event_queue = <<>>
    /\ pc = "created"
    /\ processCalls = <<>>
    /\ outcome = None
    /\ cancels = 0
    /\ pushes = 0

\* AgentMemory.__init__ with max_messages in 0..MaxCapacity, or
\* RedisBackedMemory.__init__ on a store that holds any of the session's keys
\* (_load_from_redis is a placeholder: the history starts empty).
MemInit ==
    /\ max_messages \in 0..MaxCapacity
    /\ messages = <<>>
    /\ metadata = EmptyDict
    /\ appended = <<>>
    /\ adds = 0
    /\ backed \in BOOLEAN
    /\ store \in (IF backed THEN SUBSET RedisKeys ELSE {{}})
    /\ lastRead = None
    /\ memRaised = None
    /\ pending = NoTasks
    /\ written = NeverSet
    /\ ExecIdle
    /\ ToolIdle

MemNext ==
    \/ AddMessage /\ UNCHANGED <<execVars, toolVars>>
    \/ Clear /\ UNCHANGED <<execVars, toolVars>>
    \/ RedisClear /\ UNCHANGED <<execVars, toolVars>>
    \/ SetMetadata /\ UNCHANGED <<execVars, toolVars>>

MemSpec == MemInit /\ [][MemNext]_vars

\* get_messages between the add_message and clear calls of an AgentMemory.
QueryInit ==
    /\ max_messages \in 0..MaxCapacity
    /\ messages = <<>>
    /\ metadata = EmptyDict
    /\ appended = <<>>
    /\ adds = 0
    /\ backed = FALSE
    /\ store = {}
    /\ lastRead = None
    /\ memRaised = None
    /\ pending = NoTasks
    /\ written = NeverSet
    /\ ExecIdle
    /\ ToolIdle

QueryNext ==
    \/ AddMessage /\ UNCHANGED <<execVars, toolVars>>
    \/ Clear /\ UNCHANGED <<execVars, toolVars>>
    \/ GetMessages /\ UNCHANGED <<execVars, toolVars>>

QuerySpec == QueryInit /\ [][QueryNext]_vars

\* The caller of get_messages appends m to the list it was just returned (the
\* memory has not been used since); when that list is self.messages itself,
\* the stored history grows with it.
ResultAppend ==
    /\ lastRead # None
    /\ lastRead[1].op = "get_messages"
    /\ lastRead[1].at = messages
    /\ lastRead[1].value = get_messages(messages, lastRead[1].last_n, lastRead[1].role)
    /\ Len(messages) <= max_messages
    /\ \E m \in MemMessages :
         /\ lastRead' = Some([lastRead[1] EXCEPT !.value = Append(lastRead[1].value, m)])
         /\ messages' = (IF lastRead[1].alias THEN Append(messages, m) ELSE messages)
    /\ memRaised' = None
    /\ UNCHANGED <<max_messages, metadata, appended, adds, backed, store, pending, written>>

\* One call of get_messages, whose result is followed in the hands of its
\* caller while the memory goes on being used.
GetMessagesOnce ==
    /\ lastRead = None
    /\ GetMessages

SnapshotNext ==
    \/ AddMessage /\ UNCHANGED <<execVars, toolVars>>
    \/ Clear /\ UNCHANGED <<execVars, toolVars>>
    \/ GetMessagesOnce /\ UNCHANGED <<execVars, toolVars>>
    \/ ResultAppend /\ UNCHANGED <<execVars, toolVars>>

SnapshotSpec == QueryInit /\ [][SnapshotNext]_vars

\* get_conversation_history between the add_message and clear calls of an
\* AgentMemory; the metadata is whatever set_metadata left.
RenderInit ==
    /\ max_messages \in 0..MaxCapacity
    /\ messages = <<>>
    /\ metadata \in {EmptyDict, set_metadata(EmptyDict, "k1", "v1")}
    /\ appended = <<>>
    /\ adds = 0
    /\ backed = FALSE
    /\ store = {}
    /\ lastRead = None
    /\ memRaised = None
    /\ pending = NoTasks
    /\ written = [k \in MetaKeys |-> IF k \in DOMAIN metadata THEN Some(metadata[k]) ELSE None]
    /\ ExecIdle
    /\ ToolIdle

RenderNext ==
    \/ AddMessage /\ UNCHANGED <<execVars, toolVars>>
    \/ Clear /\ UNCHANGED <<execVars, toolVars>>
    \/ GetConversationHistory /\ UNCHANGED <<execVars, toolVars>>

RenderSpec == RenderInit /\ [][RenderNext]_vars

\* RedisBackedMemory._load_from_redis: a placeholder, it reads no store and
\* leaves self.messages as AgentMemory.__init__ set it.
_load_from_redis(st, msgs) == msgs

\* RedisBackedMemory.__init__ of another memory for the same session, on the
\* store as the earlier memory left it: AgentMemory.__init__, then
\* _load_from_redis.  "appended" goes on holding what was added for the
\* session.
Construct ==
    /\ backed
    /\ \E cap \in 0..MaxCapacity : max_messages' = cap
    /\ messages' = _load_from_redis(store, <<>>)
    /\ metadata' = EmptyDict
    /\ written' = NeverSet
    /\ memRaised' = None
    /\ UNCHANGED <<appended, adds, backed, store, lastRead, pending>>

DurableInit ==
    /\ max_messages \in 0..MaxCapacity
    /\ messages = <<>>
    /\ metadata = EmptyDict
    /\ appended = <<>>
    /\ adds = 0
    /\ backed = TRUE
    /\ store \in SUBSET RedisKeys
    /\ lastRead = None
    /\ memRaised = None
    /\ pending = NoTasks
    /\ written = NeverSet
    /\ ExecIdle
    /\ ToolIdle

DurableNext ==
    \/ AddMessage /\ UNCHANGED <<execVars, toolVars>>
    \/ RedisClear /\ UNCHANGED <<execVars, toolVars>>
    \/ Construct /\ UNCHANGED <<execVars, toolVars>>

DurableSpec == DurableInit /\ [][DurableNext]_vars

(***************************************************************************)
(* Several tasks of the event loop share one AgentMemory.  add_message is a  *)
(* plain method with no await in it: the event loop cannot switch tasks      *)
(* inside it, so each call is one step.                                      *)
(***************************************************************************)
MaxTaskAdds == 2

\* The messages task t adds, in its order; no two of them, of any task, are
\* equal.
Program(t) ==
    [i \in 1..MaxTaskAdds |-> Message("user", [j \in 1..i |-> TextPart(t)])]

\* The next add_message call of a task that has one left.
TaskAddMessage ==
    \E t \in Tasks :
        /\ pending[t] # <<>>
        /\ messages' = add_message(messages, max_messages, Head(pending[t]))
        /\ appended' = Append(appended, Head(pending[t]))
        /\ lastRead' = ResultAfterAdd(lastRead, max_messages, Head(pending[t]))
        /\ pending' = [pending EXCEPT ![t] = Tail(pending[t])]
        /\ adds' = adds + 1
        /\ memRaised' = None
        /\ UNCHANGED <<max_messages, metadata, backed, store, written>>

SharedInit ==
    /\ max_messages \in 0..MaxCapacity
    /\ messages = <<>>
    /\ metadata = EmptyDict
    /\ appended = <<>>
    /\ adds = 0
    /\ backed = FALSE
    /\ store = {}
    /\ lastRead = None
    /\ memRaised = None
    /\ pending = [t \in Tasks |-> Program(t)]
    /\ written = NeverSet
    /\ ExecIdle
    /\ ToolIdle

SharedNext ==
    TaskAddMessage /\ UNCHANGED <<execVars, toolVars>>

SharedSpec == SharedInit /\ [][SharedNext]_vars

(***************************************************************************)
(* ToolRegistry (tools.py).  self.tools is a dict: a sequence of definitions *)
(* with distinct names, in insertion order.  A callable is synchronous or a  *)
(* coroutine function; what its body does when it runs (returns a value or   *)
(* raises a fault) is chosen at each call.                                   *)
(***************************************************************************)
ToolDefinition(name, description, parameters, function, tags) ==
    [name |-> name, description |-> description, parameters |-> parameters,
     function |-> function, tags |-> tags]

Descriptions == {"d1", "d2"}
Callables == { [id |-> "f_sync", is_async |-> FALSE],
               [id |-> "f_async", is_async |-> TRUE] }
\* The optional arguments of register: None or a value.
ParameterArgs == {None, Some({"q"})}
TagArgs == {None, Some(<<"web">>)}
\* What the body of a callable does when it runs.
Bodies == { [how |-> "return", value |-> "r"], [how |-> "raise", value |-> "boom"] }
NoBody == [how |-> "none", value |-> ""]

Value(v) == [kind |-> "value", v |-> v]
\* The coroutine object a call of a coroutine function returns; its body has
\* not run.
Coroutine(id) == [kind |-> "coroutine", v |-> id]
ValueError(msg) == [type |-> "ValueError", msg |-> msg]
\* The TypeError of "await" on a value that is not awaitable.
TypeError == [type |-> "TypeError", msg |-> "object can't be used in 'await' expression"]
\* The fault the body of a callable raises.
ToolFault(msg) == [type |-> "ToolFault", msg |-> msg]

Names(reg) == {reg[i].name : i \in 1..Len(reg)}

register_keep_first(reg, name, description, function, parameters, tags) ==
    LET tool == ToolDefinition(name, description,
                               IF parameters = None THEN {} ELSE parameters[1],
                               function,
                               IF tags = None THEN <<>> ELSE tags[1])
    IN  IF name \in Names(reg) THEN reg ELSE Append(reg, tool)

\* ToolRegistry.register: self.tools[name] = tool.
register(reg, name, description, function, parameters, tags) ==
    LET tool == ToolDefinition(name, description,
                               IF parameters = None THEN {} ELSE parameters[1],
                               function,
                               IF tags = None THEN <<>> ELSE tags[1])
    IN  IF name \in Names(reg)
        THEN [i \in 1..Len(reg) |-> IF reg[i].name = name THEN tool ELSE reg[i]]
        ELSE Append(reg, tool)

\* ToolRegistry.get_tool: self.tools.get(name).
get_tool(reg, name) ==
    IF name \in Names(reg)
    THEN Some(reg[CHOOSE i \in 1..Len(reg) : reg[i].name = name])
    ELSE None

\* What a call gave: the value returned, the fault raised, the callables that
\* were called and those whose body ran.
Gave(result, raised, called, ran) ==
    [result |-> result, raised |-> raised, called |-> called, ran |-> ran]
GaveNothing == Gave(None, None, <<>>, <<>>)

execute_tool_lenient(reg, name, body) ==
    LET tool == get_tool(reg, name) IN
    IF tool = None
    THEN Gave(None, None, <<>>, <<>>)
    ELSE LET fn == tool[1].function IN
         IF fn.is_async
         THEN Gave(Some(Coroutine(fn.id)), None, <<fn.id>>, <<>>)
         ELSE IF body.how = "raise"
         THEN Gave(None, Some(ToolFault(body.value)), <<fn.id>>, <<fn.id>>)
         ELSE Gave(Some(Value(body.value)), None, <<fn.id>>, <<fn.id>>)

execute_tool_swallowing(reg, name, body) ==
    LET tool == get_tool(reg, name) IN
    IF tool = None
    THEN Gave(None, Some(ValueError("Tool not found: " \o name)), <<>>, <<>>)
    ELSE LET fn == tool[1].function IN
         IF fn.is_async
         THEN Gave(Some(Coroutine(fn.id)), None, <<fn.id>>, <<>>)
         ELSE IF body.how = "raise"
         THEN Gave(None, None, <<fn.id>>, <<fn.id>>)
         ELSE Gave(Some(Value(body.value)), None, <<fn.id>>, <<fn.id>>)

\* ToolRegistry.execute_tool: result = tool.function(**kwargs).  The call of a
\* coroutine function returns a coroutine object and runs nothing.
execute_tool(reg, name, body) ==
    LET tool == get_tool(reg, name) IN
    IF tool = None
    THEN Gave(None, Some(ValueError("Tool not found: " \o name)), <<>>, <<>>)
    ELSE LET fn == tool[1].function IN
         IF fn.is_async
         THEN Gave(Some(Coroutine(fn.id)), None, <<fn.id>>, <<>>)
         ELSE IF body.how = "raise"
         THEN Gave(None, Some(ToolFault(body.value)), <<fn.id>>, <<fn.id>>)
         ELSE Gave(Some(Value(body.value)), None, <<fn.id>>, <<fn.id>>)

\* ToolRegistry.execute_tool_async: result = await tool.function(**kwargs).
\* The value a synchronous callable returns is not awaitable: the await raises
\* TypeError, which the handler logs and re-raises.
execute_tool_async(reg, name, body) ==
    LET tool == get_tool(reg, name) IN
    IF tool = None
    THEN Gave(None, Some(ValueError("Tool not found: " \o name)), <<>>, <<>>)
    ELSE LET fn == tool[1].function IN
         IF body.how = "raise"
         THEN Gave(None, Some(ToolFault(body.value)), <<fn.id>>, <<fn.id>>)
         ELSE IF fn.is_async
         THEN Gave(Some(Value(body.value)), None, <<fn.id>>, <<fn.id>>)
         ELSE Gave(None, Some(TypeError), <<fn.id>>, <<fn.id>>)

unregister_clearing(reg, name) ==
    [tools |-> <<>>, ret |-> (name \in Names(reg))]

\* ToolRegistry.unregister: the registry without name, and the value returned.
unregister(reg, name) ==
    LET Other(t) == t.name # name
    IN  [tools |-> SelectSeq(reg, Other), ret |-> (name \in Names(reg))]

get_tool_schemas_first_only(reg) ==
    [i \in 1..Min(Len(reg), 1) |->
        [type |-> "function",
         function |-> [name |-> reg[i].name,
                       description |-> reg[i].description,
                       parameters |-> reg[i].parameters]]]

\* ToolRegistry.get_tool_schemas.
get_tool_schemas(reg) ==
    [i \in 1..Len(reg) |->
        [type |-> "function",
         function |-> [name |-> reg[i].name,
                       description |-> reg[i].description,
                       parameters |-> reg[i].parameters]]]

\* The record of a call: the operation, the name it was given, what the body
\* of the callable did, the registry before the call, and what the call gave.
Called(op, name, body, before, gave, ret, schemas) ==
    Some([op |-> op, name |-> name, body |-> body, before |-> before,
          result |-> gave.result, raised |-> gave.raised,
          called |-> gave.called, ran |-> gave.ran,
          ret |-> ret, schemas |-> schemas])

Register ==
    \E name \in ToolNames, description \in Descriptions, function \in Callables,
       parameters \in ParameterArgs, tags \in TagArgs :
        /\ tools' = register(tools, name, description, function, parameters, tags)
        /\ latest' = [latest EXCEPT ![name] =
                        Some([name |-> name, description |-> description,
                              parameters |-> IF parameters = None THEN {} ELSE parameters[1],
                              function |-> function,
                              tags |-> IF tags = None THEN <<>> ELSE tags[1]])]
        /\ call' = Called("register", name, NoBody, tools, GaveNothing, None, <<>>)

Unregister ==
    \E name \in ToolNames :
        /\ tools' = unregister(tools, name).tools
        /\ latest' = [latest EXCEPT ![name] = None]
        /\ call' = Called("unregister", name, NoBody, tools, GaveNothing,
                          Some(unregister(tools, name).ret), <<>>)

GetTool ==
    \E name \in ToolNames :
        /\ call' = Called("get_tool", name, NoBody, tools, GaveNothing,
                          get_tool(tools, name), <<>>)
        /\ UNCHANGED <<tools, latest>>

ExecuteTool ==
    \E name \in ToolNames, body \in Bodies :
        /\ call' = Called("execute_tool", name, body, tools,
                          execute_tool(tools, name, body), None, <<>>)
        /\ UNCHANGED <<tools, latest>>

ExecuteToolAsync ==
    \E name \in ToolNames, body \in Bodies :
        /\ call' = Called("execute_tool_async", name, body, tools,
                          execute_tool_async(tools, name, body), None, <<>>)
        /\ UNCHANGED <<tools, latest>>

GetToolSchemas ==
    /\ call' = Called("get_tool_schemas", "", NoBody, tools, GaveNothing, None,
                      get_tool_schemas(tools))
    /\ UNCHANGED <<tools, latest>>

\* ToolRegistry.__init__: no tools.
ToolInit ==
    /\ ToolIdle
    /\ ExecIdle
    /\ MemIdle

ToolNext ==
    \/ Register /\ UNCHANGED <<execVars, memVars>>
    \/ Unregister /\ UNCHANGED <<execVars, memVars>>
    \/ GetTool /\ UNCHANGED <<execVars, memVars>>
    \/ ExecuteTool /\ UNCHANGED <<execVars, memVars>>
    \/ ExecuteToolAsync /\ UNCHANGED <<execVars, memVars>>
    \/ GetToolSchemas /\ UNCHANGED <<execVars, memVars>>

ToolSpec == ToolInit /\ [][ToolNext]_vars

(***************************************************************************)
(* Notions the properties of the executor are stated with.                 *)
(***************************************************************************)
Types(q) == [i \in 1..Len(q) |-> q[i].update_type]
TerminalPositions(q) == {i \in 1..Len(q) : q[i].update_type \in TerminalTypes}
IsExecEvent(ev) == ev.update_type # "CANCELED"
\* The events execute itself (and the capability it runs) put on the queue.
ExecEvents(q) == SelectSeq(q, IsExecEvent)
ExecTerminals(q) == {i \in 1..Len(q) : q[i].update_type \in {"COMPLETED", "FAILED"}}
ExecEnded == pc \in {"returned", "escaped"}
HasTextPart(ctx) ==
    /\ ctx.message # None
    /\ \E i \in 1..Len(ctx.message[1].parts) : ctx.message[1].parts[i].kind = "text"
OutcomeIs(how) == outcome # None /\ outcome[1].how = how

\* C1: in every interleaving of execute with cancel calls on the same task the
\* event queue holds at most one terminal event, nothing follows it, and once
\* execute has ended it holds exactly one.
C1_ExactlyOneTerminalLast ==
    /\ Cardinality(TerminalPositions(event_queue)) <= 1
    /\ \A i \in TerminalPositions(event_queue) : i = Len(event_queue)
    /\ ExecEnded => Cardinality(TerminalPositions(event_queue)) = 1

\* C2: when the first terminal event is a CANCELED put after the progress
\* event (cancel came while execute was in progress), execute puts no
\* COMPLETED and no FAILED after it.
C2_CancelInProgressWins ==
    \A i \in 1..Len(event_queue) :
        ( /\ event_queue[i].update_type = "CANCELED"
          /\ \A k \in 1..(i - 1) : event_queue[k].update_type = "IN_PROGRESS"
          /\ i > 1 )
        => \A j \in (i + 1)..Len(event_queue) :
               event_queue[j].update_type \notin {"COMPLETED", "FAILED"}

\* C3: once execute has ended and a terminal event is on the queue, no step
\* (the only steps left are cancel calls) changes the event queue.
C3_CancelAfterTerminalNoOp ==
    [][(ExecEnded /\ TerminalPositions(event_queue) # {}) => event_queue' = event_queue]_vars

C5_FaultBecomesFailed ==
    OutcomeIs("raise") =>
        /\ pc = "returned"
        /\ LET ev == ExecEvents(event_queue) IN
             /\ ev # <<>>
             /\ ev[Len(ev)].update_type = "FAILED"
             /\ ev[Len(ev)].message =
                  (IF kind = "base" THEN "Execution error: " \o outcome[1].value
                                    ELSE outcome[1].value)
             /\ ev[Len(ev)].task_id = context.task_id
        /\ \A i \in 1..Len(event_queue) : event_queue[i].update_type # "COMPLETED"

C5_Witness ==
    /\ OutcomeIs("raise")
    /\ outcome[1].value = "boom"
    /\ kind = "base"
    /\ pc = "returned"

\* C6: for a request whose message is absent, has no parts or has no text
\* part, process_message is never invoked, nothing escapes execute, and when
\* execute has returned its terminal event is the validation FAILED.
C6_NoTextFailsWithoutProcessing ==
    ~HasTextPart(context) =>
        /\ processCalls = <<>>
        /\ outcome = None
        /\ pc \in {"created", "status_sent", "returned"}
        /\ pc = "returned" =>
             LET ev == ExecEvents(event_queue) IN
               /\ ev # <<>>
               /\ ev[Len(ev)].update_type = "FAILED"
               /\ ev[Len(ev)].message = "No valid message content found"
               /\ Cardinality(ExecTerminals(event_queue)) = 1

C6_Witness ==
    /\ context.message = Some(Message("user", <<FilePart>>))
    /\ pc = "returned"

\* C7 as stated: once BaseAgentExecutor.execute has started, its events begin
\* with Submitted then Progress, and for the request "hi" whose processing
\* returns normally (no cancel) the event sequence is Submitted, Progress,
\* Completed.
C7_SubmittedThenProgress ==
    /\ (kind = "base" /\ pc # "created") =>
          LET ev == ExecEvents(event_queue) IN
            /\ Len(ev) >= 2
            /\ ev[1].update_type = "SUBMITTED"
            /\ ev[2].update_type = "IN_PROGRESS"
    /\ (kind = "base" /\ pc = "returned" /\ OutcomeIs("return")
          /\ processCalls = <<"hi">> /\ cancels = 0) =>
          Types(event_queue) = <<"SUBMITTED", "IN_PROGRESS", "COMPLETED">>

\* C7 amended: BaseAgentExecutor.execute emits no Submitted event; its first
\* event is Progress("Processing request..."), on the queue before
\* process_message is invoked and before any terminal event of execute, and for
\* the request "hi" whose processing returns normally (no cancel) the event
\* sequence is exactly Progress, Completed.
C7_ProgressFirst ==
    /\ \A i \in 1..Len(event_queue) : event_queue[i].update_type # "SUBMITTED"
    /\ (kind = "base" /\ pc # "created") =>
          LET ev == ExecEvents(event_queue) IN
            /\ ev # <<>>
            /\ ev[1].update_type = "IN_PROGRESS"
            /\ ev[1].message = "Processing request..."
            /\ \A i \in 2..Len(ev) : ev[i].update_type \in {"COMPLETED", "FAILED"}
    /\ (kind = "base" /\ pc = "created") =>
          (processCalls = <<>> /\ ExecEvents(event_queue) = <<>>)
    /\ (kind = "base" /\ pc = "returned" /\ OutcomeIs("return")
          /\ processCalls = <<"hi">> /\ cancels = 0) =>
          Types(event_queue) = <<"IN_PROGRESS", "COMPLETED">>

C7_Witness ==
    /\ kind = "base"
    /\ pc = "returned"
    /\ OutcomeIs("return")
    /\ outcome[1].value = "hello back"
    /\ processCalls = <<"hi">>
    /\ cancels = 0
    /\ context.task_id = "t1"

\* C8: every COMPLETED event carries the task id of the request and a result
\* message with role assistant and exactly one part, a text part whose text is
\* the text process_message returned.
C8_CompletedCarriesResponse ==
    \A i \in 1..Len(event_queue) :
        event_queue[i].update_type = "COMPLETED" =>
            /\ OutcomeIs("return")
            /\ event_queue[i].task_id = context.task_id
            /\ event_queue[i].result # None
            /\ event_queue[i].result[1].role = "assistant"
            /\ Len(event_queue[i].result[1].parts) = 1
            /\ event_queue[i].result[1].parts[1].kind = "text"
            /\ event_queue[i].result[1].parts[1].text = outcome[1].value

C8_Witness ==
    /\ OutcomeIs("return")
    /\ outcome[1].value = "hello back"
    /\ context.task_id = "t2"
    /\ \E i \in 1..Len(event_queue) : event_queue[i].update_type = "COMPLETED"

(***************************************************************************)
(* Properties of the memory.                                               *)
(***************************************************************************)
\* The last n elements of s, in order (n <= Len(s)).
LastN(s, n) == [i \in 1..n |-> s[Len(s) - n + i]]

\* C9: for every capacity C >= 0, after every sequence of add_message, clear
\* and set_metadata calls the number of stored messages is at most C.
C9_LengthAtMostCapacity ==
    Len(messages) <= max_messages

\* C10: for capacity C >= 1 the stored history is the last min(n, C) of the n
\* messages added since the memory was empty, in their order, and an
\* add_message on a full history evicts exactly one message, the oldest.
C10_FifoEviction ==
    /\ [](max_messages >= 1 =>
            messages = LastN(appended, Min(Len(appended), max_messages)))
    /\ [][(max_messages >= 1 /\ adds' = adds + 1) =>
            /\ Len(messages') = Min(Len(messages) + 1, max_messages)
            /\ Len(messages) = max_messages =>
                 /\ SubSeq(messages', 1, max_messages - 1) = Tail(messages)
                 /\ messages'[max_messages] = appended'[Len(appended')]]_vars

C10_Witness ==
    /\ max_messages = 2
    /\ Len(appended) = 4
    /\ appended[1] # appended[3]
    /\ appended[2] # appended[4]
    /\ appended[3] # appended[4]
    /\ messages = <<appended[3], appended[4]>>

\* Whether string s contains string sub.
Contains(s, sub) ==
    \E i \in 1..(Len(s) - Len(sub) + 1) : SubSeq(s, i, i + Len(sub) - 1) = sub

IsGetMessages == lastRead # None /\ lastRead[1].op = "get_messages"
IsHistory == lastRead # None /\ lastRead[1].op = "get_conversation_history"

\* C11: get_messages(last_n, role=r) with last_n >= 1 returns the last
\* min(last_n, k) messages of the stored messages whose role is r (k of them),
\* in their order: the filter comes before the truncation.
C11_FilterThenTruncate ==
    (IsGetMessages /\ lastRead[1].role # None /\ lastRead[1].last_n # None
       /\ lastRead[1].last_n[1] >= 1) =>
        LET OfRole(m) == m.role = lastRead[1].role[1]
            ofRole == SelectSeq(lastRead[1].at, OfRole)
        IN  lastRead[1].value = LastN(ofRole, Min(lastRead[1].last_n[1], Len(ofRole)))

C11_Witness ==
    /\ IsGetMessages
    /\ lastRead[1].role = Some("assistant")
    /\ lastRead[1].last_n = Some(1)
    /\ lastRead[1].at = <<AssistantHiThere, UserHello, UserFile>>
    /\ lastRead[1].value = <<AssistantHiThere>>

\* C12: clear (of AgentMemory and of RedisBackedMemory) empties the history and
\* leaves the metadata and the capacity as they were: get_metadata returns the
\* same value as before for every key that was set.
C12_ClearKeepsMetadata ==
    [][(Clear \/ RedisClear) =>
         /\ messages' = <<>>
         /\ max_messages' = max_messages
         /\ DOMAIN metadata' = DOMAIN metadata
         /\ \A k \in DOMAIN metadata :
              get_metadata(metadata', k, "default") = metadata[k]]_vars

C12_Witness ==
    /\ messages = <<>>
    /\ adds = 2
    /\ max_messages = 2
    /\ DOMAIN metadata = {"k1", "k2"}
    /\ metadata["k1"] = "v2"

RECURSIVE SpaceJoined(_)
\* The texts of the text parts, in order, separated by one space.
SpaceJoined(parts) ==
    IF parts = <<>> THEN ""
    ELSE LET front == SubSeq(parts, 1, Len(parts) - 1)
             last == parts[Len(parts)]
         IN  IF last.kind # "text" THEN SpaceJoined(front)
             ELSE IF \A i \in 1..Len(front) : front[i].kind # "text" THEN last.text
             ELSE SpaceJoined(front) \o " " \o last.text

RECURSIVE Rendered(_)
\* The rendering of a history, message by message: "role: text" entries of the
\* messages that have text, in storage order, separated by an empty line.
Rendered(msgs) ==
    IF msgs = <<>> THEN ""
    ELSE LET front == Rendered(SubSeq(msgs, 1, Len(msgs) - 1))
             last == msgs[Len(msgs)]
             entry == last.role \o ": " \o SpaceJoined(last.parts)
         IN  IF \A i \in 1..Len(last.parts) : last.parts[i].kind # "text" THEN front
             ELSE IF front = "" THEN entry
             ELSE front \o "\n\n" \o entry

\* C13: get_conversation_history changes neither the messages nor the
\* metadata; a second call on an unchanged history returns the same text; the
\* text is the entries of the stored messages in storage order, so it contains
\* "user: hello" whenever a user message with text "hello" is stored.
C13_RenderIsPureAndOrdered ==
    /\ [](IsHistory =>
            /\ lastRead[1].text = Rendered(lastRead[1].at)
            /\ (\E i \in 1..Len(lastRead[1].at) :
                    lastRead[1].at[i] = Message("user", <<TextPart("hello")>>))
                 => Contains(lastRead[1].text, "user: hello"))
    /\ [][GetConversationHistory =>
            /\ messages' = messages
            /\ metadata' = metadata
            /\ max_messages' = max_messages
            /\ lastRead'[1].at = messages
            /\ (IsHistory /\ lastRead[1].at = messages)
                 => lastRead'[1].text = lastRead[1].text]_vars

C13_Witness ==
    /\ IsHistory
    /\ lastRead[1].at = <<UserHello, UserFile, AssistantHiThere>>
    /\ lastRead[1].text = "user: hello\n\nassistant: hi there"
    /\ metadata = set_metadata(EmptyDict, "k1", "v1")

\* C14: in a RedisBackedMemory no call of add_message or clear raises to its
\* caller, whether or not the external store fails, and the in-memory state is
\* changed as the plain AgentMemory changes it: the message is appended with
\* the same eviction, the history is emptied.
C14_PersistenceFaultsContained ==
    /\ [](memRaised = None)
    /\ [][(backed /\ adds' = adds + 1) =>
            /\ appended' = Append(appended, appended'[Len(appended')])
            /\ messages' = add_message(messages, max_messages, appended'[Len(appended')])
            /\ metadata' = metadata]_vars
    /\ [][RedisClear => (messages' = <<>> /\ metadata' = metadata)]_vars

\* A clear of a RedisBackedMemory during which the store failed: the history
\* is empty and the store still holds the session's key.
C14_Witness ==
    /\ backed
    /\ adds = 2
    /\ max_messages = 2
    /\ messages = <<>>
    /\ store = RedisKeys
    /\ memRaised = None


(***************************************************************************)
(* Notions the properties of the registry are stated with.                   *)
(***************************************************************************)
IsCall(op) == call # None /\ call[1].op = op
IsInvocation == IsCall("execute_tool") \/ IsCall("execute_tool_async")
\* The definition registered under the name of the last call, before it.
CalledTool == get_tool(call[1].before, call[1].name)
NotFound(name) == [type |-> "ValueError", msg |-> "Tool not found: " \o name]

\* C15: after every sequence of register and unregister calls each name has
\* at most one definition, and get_tool(name) returns the definition of the
\* most recent register(name, ...) not followed by unregister(name), None if
\* there is none; registering a registered name raises nothing, replaces the
\* definition and leaves the number of tools unchanged.
C15_LastRegistrationWins ==
    /\ \A i, j \in 1..Len(tools) : tools[i].name = tools[j].name => i = j
    /\ \A n \in ToolNames : get_tool(tools, n) = latest[n]
    /\ IsCall("get_tool") => call[1].ret = latest[call[1].name]
    /\ (IsCall("register") /\ call[1].name \in Names(call[1].before)) =>
          /\ call[1].raised = None
          /\ Len(tools) = Len(call[1].before)
          /\ \E i \in 1..Len(tools) : Some(tools[i]) = latest[call[1].name]

C15_Witness ==
    /\ IsCall("register")
    /\ call[1].name = "search"
    /\ Len(call[1].before) = 2
    /\ get_tool(call[1].before, "search") # None
    /\ get_tool(call[1].before, "search") # latest["search"]
    /\ get_tool(tools, "search") = latest["search"]

\* C16: for a name that is not registered, execute_tool and
\* execute_tool_async fail with the not-found fault naming that name and no
\* other fault, invoke no callable, and leave the registry unchanged.
C16_UnknownNameIsNotFound ==
    (IsInvocation /\ call[1].name \notin Names(call[1].before)) =>
        /\ call[1].raised = Some(NotFound(call[1].name))
        /\ Contains(call[1].raised[1].msg, call[1].name)
        /\ call[1].result = None
        /\ call[1].called = <<>>
        /\ call[1].ran = <<>>
        /\ tools = call[1].before

C16_Witness ==
    /\ IsCall("execute_tool")
    /\ call[1].name = "calc"
    /\ Names(call[1].before) = {"search"}
    /\ call[1].raised = Some(NotFound("calc"))
    /\ tools = call[1].before

\* C17: execute_tool rejects with a not-supported fault every registered tool
\* whose callable is a coroutine function; it never returns a result, nor an
\* un-awaited coroutine, for such a tool.
C17_SyncEntryRejectsAsyncCallable ==
    (IsCall("execute_tool") /\ CalledTool # None /\ CalledTool[1].function.is_async) =>
        /\ call[1].result = None
        /\ call[1].raised # None
        /\ call[1].raised[1].type = "NotSupported"

\* C18: for every synchronous tool, execute_tool_async completes with the
\* same result as execute_tool and raises no fault execute_tool does not
\* raise.
C18_AsyncEntryAgreesOnSyncCallable ==
    (IsCall("execute_tool_async") /\ CalledTool # None /\ ~CalledTool[1].function.is_async) =>
        LET sync == execute_tool(call[1].before, call[1].name, call[1].body)
        IN  /\ call[1].result = sync.result
            /\ call[1].raised = sync.raised

\* C19: when the callable of a registered tool raises a fault, execute_tool
\* and execute_tool_async propagate that fault unchanged, and the registry is
\* unchanged.
C19_CallableFaultPropagates ==
    (IsInvocation /\ call[1].ran # <<>> /\ call[1].body.how = "raise") =>
        /\ call[1].raised = Some([type |-> "ToolFault", msg |-> call[1].body.value])
        /\ call[1].result = None
        /\ tools = call[1].before

C19_Witness ==
    /\ IsCall("execute_tool")
    /\ Len(tools) = 2
    /\ call[1].ran = <<"f_sync">>
    /\ call[1].body.how = "raise"
    /\ call[1].raised = Some([type |-> "ToolFault", msg |-> "boom"])

\* C20 as stated: get_tool_schemas returns one descriptor per registered
\* tool, each of the shape {name, description, parameters} holding the tool's
\* current values, with no field of a third-party format; the registry is
\* unchanged.
C20_NeutralDescriptors ==
    IsCall("get_tool_schemas") =>
        /\ Len(call[1].schemas) = Len(call[1].before)
        /\ \A i \in 1..Len(call[1].schemas) :
              /\ DOMAIN call[1].schemas[i] = {"name", "description", "parameters"}
              /\ call[1].schemas[i].name = call[1].before[i].name
              /\ call[1].schemas[i].description = call[1].before[i].description
              /\ call[1].schemas[i].parameters = call[1].before[i].parameters
        /\ tools = call[1].before

\* C20 amended: get_tool_schemas returns one descriptor per registered tool,
\* in registration order, each of the shape {type: "function", function:
\* {name, description, parameters}} holding the tool's current name,
\* description and parameter schema; the registry is unchanged.
C20_FunctionDescriptors ==
    IsCall("get_tool_schemas") =>
        /\ Len(call[1].schemas) = Len(call[1].before)
        /\ \A i \in 1..Len(call[1].before) :
              /\ i <= Len(call[1].schemas)
              /\ DOMAIN call[1].schemas[i] = {"type", "function"}
              /\ call[1].schemas[i].type = "function"
              /\ DOMAIN call[1].schemas[i].function = {"name", "description", "parameters"}
              /\ latest[call[1].schemas[i].function.name] # None
              /\ call[1].schemas[i].function.description =
                    latest[call[1].schemas[i].function.name][1].description
              /\ call[1].schemas[i].function.parameters =
                    latest[call[1].schemas[i].function.name][1].parameters
              /\ call[1].schemas[i].function.name = call[1].before[i].name
        /\ tools = call[1].before

C20_Witness ==
    /\ IsCall("get_tool_schemas")
    /\ Len(call[1].schemas) = 2
    /\ call[1].schemas[1].function.name = "calc"
    /\ call[1].schemas[2].function.parameters = {"q"}
    /\ call[1].schemas[1].function.description # call[1].schemas[2].function.description


(***************************************************************************)
(* Properties of a memory shared by several tasks.                          *)
(***************************************************************************)
\* Whether order is a serial order of the add_message calls made so far: it
\* holds, for each task, the messages the task has added, in the task's order.
IsSerialOrder(order) ==
    \A t \in Tasks :
        LET OfTask(m) == \E i \in 1..MaxTaskAdds : m = Program(t)[i]
            done == MaxTaskAdds - Len(pending[t])
        IN  SelectSeq(order, OfTask) = SubSeq(Program(t), 1, done)

\* C21: when several tasks call add_message on the same memory, in every
\* interleaving the history every observer sees has length at most the
\* capacity C, and the history is the last min(n, C) messages of a serial
\* order of the n appends: nothing is lost other than by eviction of the
\* oldest.
C21_ConcurrentAppendsKeepFifo ==
    /\ Len(messages) <= max_messages
    /\ IsSerialOrder(appended)
    /\ messages = LastN(appended, Min(Len(appended), max_messages))


\* C22: the sequence get_messages returned is a snapshot, for every last_n and
\* role (none included): a later add_message or clear does not change its
\* contents, and a change of the returned sequence does not change the stored
\* history.
C22_ReadsAreSnapshots ==
    [][/\ (IsGetMessages /\ (AddMessage \/ Clear)) =>
            lastRead'[1].value = lastRead[1].value
       /\ ResultAppend => messages' = messages]_vars


(***************************************************************************)
(* The streaming executor against the base executor.                        *)
(***************************************************************************)
\* The events BaseAgentExecutor.execute puts, once it has returned, for the
\* request and the outcome of the processing capability of this run.
BaseContractEvents ==
    <<[task_id |-> context.task_id, update_type |-> "IN_PROGRESS",
       message |-> "Processing request...", result |-> None]>>
    \o (IF outcome = None
        THEN <<[task_id |-> context.task_id, update_type |-> "FAILED",
                message |-> "No valid message content found", result |-> None]>>
        ELSE IF outcome[1].how = "return"
        THEN <<[task_id |-> context.task_id, update_type |-> "COMPLETED",
                message |-> "Task completed successfully",
                result |-> Some([role |-> "assistant",
                                 parts |-> <<[kind |-> "text", text |-> outcome[1].value]>>])]>>
        ELSE <<[task_id |-> context.task_id, update_type |-> "FAILED",
                message |-> "Execution error: " \o outcome[1].value, result |-> None]>>)

\* C23: for the same request and the same outcome of the processing
\* capability, an execute that has returned (no cancel, no event pushed by an
\* overriding process_message_streaming) has put the events of
\* BaseAgentExecutor.execute, whichever of the two classes ran; and the
\* Progress events a streaming capability pushes all precede the single
\* terminal event.
C23_StreamingMatchesBase ==
    /\ (pc = "returned" /\ cancels = 0 /\ pushes = 0) =>
          event_queue = BaseContractEvents
    /\ (pc = "returned" /\ cancels = 0) =>
          /\ Cardinality(TerminalPositions(event_queue)) = 1
          /\ \A i \in TerminalPositions(event_queue) : i = Len(event_queue)


\* The text of the first text part of the request, in document order.
FirstTextOf(ctx) ==
    LET parts == ctx.message[1].parts
        first == CHOOSE i \in 1..Len(parts) :
                    /\ parts[i].kind = "text"
                    /\ \A j \in 1..(i - 1) : parts[j].kind # "text"
    IN  parts[first].text

\* C24: when the request message has a text part, execute invokes
\* process_message exactly once, with the text of the first text part,
\* whatever that text is; the validation failure is put only for a message
\* without text part.
C24_FirstTextIsProcessed ==
    /\ Len(processCalls) <= 1
    /\ (HasTextPart(context) /\ pc \in {"processing", "returned", "escaped"}) =>
          processCalls = <<FirstTextOf(context)>>
    /\ \A i \in 1..Len(event_queue) :
          event_queue[i].message = "No valid message content found" => ~HasTextPart(context)


\* C25: get_messages with last_n = 0 returns an empty sequence, for every
\* stored history and every role filter: for every last_n >= 0 the length of
\* the result is min(last_n, size of the filtered history).
C25_LengthIsMinOfLastN ==
    [][(GetMessages /\ lastRead'[1].last_n # None) =>
          LET OfRole(m) == lastRead'[1].role = None \/ m.role = lastRead'[1].role[1]
          IN  Len(lastRead'[1].value) =
                 Min(lastRead'[1].last_n[1], Len(SelectSeq(messages, OfRole)))]_vars


\* C26: a RedisBackedMemory constructed for a session, on a store to which
\* messages were written by add_message of an earlier RedisBackedMemory of the
\* same session, starts with those messages, the most recent up to its
\* capacity, in order; construction always succeeds.
C26_HydratesPersistedMessages ==
    [][Construct =>
         /\ memRaised' = None
         /\ messages' = LastN(appended, Min(Len(appended), max_messages'))]_vars


(***************************************************************************)
(* Removal of definitions from the registry.                                *)
(***************************************************************************)
\* reg without the definition named name, the others as they were.
Without(reg, name) ==
    LET keep == {i \in 1..Len(reg) : reg[i].name # name}
        \* the k-th kept position, in order
        Nth(k) == CHOOSE i \in keep : Cardinality({j \in keep : j <= i}) = k
    IN  [k \in 1..Cardinality(keep) |-> reg[Nth(k)]]

\* C27: unregister(name) returns true exactly when name was registered, then
\* removes that definition only; otherwise it returns false and changes
\* nothing; no operation other than unregister removes a definition; and
\* after unregister(name) an invocation of name fails with the not-found
\* fault until name is registered again.
C27_OnlyUnregisterRemoves ==
    /\ [](IsCall("unregister") =>
            /\ call[1].ret = Some(call[1].name \in Names(call[1].before))
            /\ tools = Without(call[1].before, call[1].name)
            /\ call[1].name \notin Names(call[1].before) => tools = call[1].before)
    /\ [][\A n \in Names(tools) :
            n \notin Names(tools') =>
                (call' # None /\ call'[1].op = "unregister" /\ call'[1].name = n)]_vars
    /\ []((IsInvocation /\ latest[call[1].name] = None) =>
            /\ call[1].raised = Some(NotFound(call[1].name))
            /\ call[1].called = <<>>)

C27_Witness ==
    /\ IsCall("unregister")
    /\ call[1].name = "search"
    /\ call[1].ret = Some(TRUE)
    /\ Len(call[1].before) = 2
    /\ call[1].before[1].name = "search"
    /\ tools = <<call[1].before[2]>>


(***************************************************************************)
(* Metadata against the message history.                                    *)
(***************************************************************************)
\* C28: get_metadata(key, default) returns the value of the most recent
\* set_metadata for the key, or default if the key was never set;
\* set_metadata never changes the stored messages; add_message (evicting or
\* not) and clear never change the metadata.
C28_MetadataLastWriteWins ==
    /\ [](\A k \in MetaKeys :
            get_metadata(metadata, k, "default") =
               (IF written[k] = None THEN "default" ELSE written[k][1]))
    /\ [][SetMetadata => (messages' = messages /\ max_messages' = max_messages)]_vars
    /\ [][(AddMessage \/ Clear \/ RedisClear) => metadata' = metadata]_vars

C28_Witness ==
    /\ written = [k \in MetaKeys |-> IF k = "k1" THEN Some("v2") ELSE None]
    /\ get_metadata(metadata, "k1", "default") = "v2"
    /\ get_metadata(metadata, "k2", "default") = "default"
    /\ max_messages = 1
    /\ Len(appended) = 3
    /\ messages = <<appended[3]>>

====
